---------------------------- MODULE Spec2Model ----------------------------
(* Model of extensions/gitpod/src/localApp.ts: the lease lock kept in the   *)
(* shared globalState store (withLock, releaseStaleLocks), the locked       *)
(* install-and-start sequence (ensureLocalApp, installLocalApp,             *)
(* startLocalApp) and the retrying call loop (withLocalApp).                *)
(* Every editor window is one process running one LocalApp object; all      *)
(* windows share one globalState. Each store read, each store write and     *)
(* each awaited step is one atomic action; windows interleave freely.       *)
EXTENDS Naturals, Integers, Sequences, FiniteSets, TLC

(***************************************************************************)
(* Bounds of the model                                                     *)
(***************************************************************************)
NumWindows == 2      \* editor-window processes sharing the store
MaxCalls == 2        \* withLocalApp calls started, over all windows
MaxTicks == 1        \* how many lease lengths the clock may advance
MaxChanges == 1      \* environment changes (tag, override, binary, helper exit)
AttemptsCap == 2     \* invocations of op counted per call (the count saturates)
MaxSweeps == 2       \* runs of the stale-lock sweep, over all windows

(***************************************************************************)
(* Program constants (milliseconds)                                        *)
(***************************************************************************)
checkStaleInterval == 30000
installLockTimeout == 300000
updateTimeout == 150

Windows == 1..NumWindows

\* An optional value (T | undefined) is a sequence of length 0 or 1.
undefined == <<>>
Some(x) == <<x>>
Val(o) == o[1]
Defined(o) == o # undefined

\* The single remote-host identity under study: the keys lock/<authority>,
\* installation/<authority> and config/<authority> of withLocalApp.
gitpodHost == "host-a"

\* One lease length: the deadline written at line 110 is now + LeaseLength.
LeaseLength == installLockTimeout + updateTimeout * 2

\* Paths: the manually configured binary and the tmp files of installLocalApp.
ConfiguredPath == <<"configured", 0>>
TmpPath(k) == <<"tmp", k>>
\* Version tags the download endpoint may serve (absent: no etag header).
Tags == {"v1", "v2"}
\* Helper pids are allocated after the window pids.
HelperPid(k) == NumWindows + k
\* grpc.Code values that matter to withLocalApp, and one that does not.
RpcCodes == {"Unavailable", "Unknown", "NotFound"}

VARIABLES
    globalState,   \* the shared store: [lock, installation, config], each optional
    now,           \* Date.now()
    running,       \* pids of live OS processes (windows and helpers)
    ready,         \* helper pids whose RPC endpoint accepts connections
    xok,           \* paths that pass fs.access(path, X_OK)
    remoteEtag,    \* the etag header the download endpoint serves (optional)
    configuredInstallationPath, \* the gitpod.installationPath setting (optional)
    changes,       \* environment changes so far
    spawned,       \* helper pids started so far
    installed,     \* tmp files written so far
    pc,            \* per window: position in withLocalApp / withLock / ensureLocalApp
    lockCount,     \* per window: LocalApp.lockCount
    value,         \* per window: the token of the current withLock call
    timer,         \* per window: the renewal interval: 0 cleared, else armed (1 and 2
                   \* alternate with every run of its callback)
    token,         \* per window: the caller's CancellationToken is cancelled
    tokenSource,   \* per window: withLock's tokenSource is cancelled
    config,        \* per window: ensureLocalApp's / withLocalApp's config
    installation,  \* per window: ensureLocalApp's installation
    download,      \* per window: ensureLocalApp's download (Response | Error)
    opResult,      \* per window: how op settled inside withLock
    result,        \* per window: how the withLocalApp call settled
    attempts,      \* per window: invocations of op by the current call (saturating)
    e,             \* per window: the error caught at line 363 ("" when none)
    did,           \* per window: what the current ensureLocalApp run did (history)
    sweep          \* history of the sweeps: runs so far, tokens of deleted records

envVars == <<now, running, ready, xok, remoteEtag, configuredInstallationPath,
             changes, spawned, installed>>
lockVars == <<lockCount, value, timer, token, tokenSource, sweep>>
ensureVars == <<config, installation, download>>
callVars == <<opResult, result, attempts, e, did>>
vars == <<globalState, envVars, pc, lockVars, ensureVars, callVars>>

\* Outcomes (of op inside withLock, and of a withLocalApp call).
\* kind: "none" (not settled), "returned", or the error thrown; code: the
\* grpc code when the error is an RPC error.
NoOutcome == [kind |-> "none", code |-> ""]
Returned == [kind |-> "returned", code |-> ""]
Thrown(kind) == [kind |-> kind, code |-> ""]
Cancelled == Thrown("cancelled")
RpcError(code) == [kind |-> "rpc", code |-> code]
NoDownload == [ok |-> FALSE, etag |-> undefined, err |-> ""]

NothingDone == [fetch |-> FALSE, install |-> FALSE, spawn |-> FALSE, killed |-> FALSE]

Init ==
    /\ globalState = [lock |-> undefined, installation |-> undefined, config |-> undefined]
    /\ now = 0
    /\ running = Windows
    /\ ready = {}
    /\ xok \in {{}, {ConfiguredPath}}
    /\ remoteEtag \in {undefined, Some("v1")}
    /\ configuredInstallationPath \in {undefined, Some(ConfiguredPath)}
    /\ changes = 0
    /\ spawned = 0
    /\ installed = 0
    /\ pc = [p \in Windows |-> "idle"]
    /\ lockCount = [p \in Windows |-> 0]
    /\ value = [p \in Windows |-> <<p, 0>>]
    /\ timer = [p \in Windows |-> 0]
    /\ token = [p \in Windows |-> FALSE]
    /\ tokenSource = [p \in Windows |-> FALSE]
    /\ config = [p \in Windows |-> undefined]
    /\ installation = [p \in Windows |-> undefined]
    /\ download = [p \in Windows |-> NoDownload]
    /\ opResult = [p \in Windows |-> NoOutcome]
    /\ result = [p \in Windows |-> NoOutcome]
    /\ attempts = [p \in Windows |-> 0]
    /\ e = [p \in Windows |-> ""]
    /\ did = [p \in Windows |-> NothingDone]
    /\ sweep = [runs |-> 0, reaped |-> {}]

(***************************************************************************)
(* Helpers                                                                 *)
(***************************************************************************)
\* localApp.ts:57 checkRunning(pid) === true
checkRunning(pid) == pid \in running

\* localApp.ts:53
isLock(lock) == Defined(lock)

\* a sweep that forgets the owner-pid test
IsStale_DeadlineOnly(lock) ==
    \/ ~isLock(lock)
    \/ now >= Val(lock).deadline

\* localApp.ts:86: the condition under which releaseLocks deletes a record
IsStale(lock) ==
    \/ ~isLock(lock)
    \/ now >= Val(lock).deadline
    \/ ~checkRunning(Val(lock).pid)

\* a record that carries the counter's next value instead of the call's token
NewLock_NextToken(p, timeout) ==
    [value |-> <<p, lockCount[p]>>, deadline |-> now + timeout + updateTimeout * 2, pid |-> p]

\* localApp.ts:110-111: the record an acquirer writes
NewLock(p, timeout) ==
    [value |-> value[p], deadline |-> now + timeout + updateTimeout * 2, pid |-> p]

\* a test that takes any record for the own one
HoldsToken_AnyRecord(lock, p) == Defined(lock)

\* localApp.ts:107: the acquire loop's exit test, currentLock?.value === value
HoldsToken(lock, p) == Defined(lock) /\ Val(lock).value = value[p]

\* a release that leaves the record in place
ReleasedLock_Kept(lock, p) == lock

\* localApp.ts:134: what release leaves under the lock key
ReleasedLock(lock, p) == undefined

\* localApp.ts:282,315: process.kill(pid); delivered tells whether the signal
\* ended the process (a failure is caught and logged)
Kill(pid, delivered) ==
    /\ running' = IF delivered THEN running \ {pid} ELSE running
    /\ ready' = IF delivered THEN ready \ {pid} ELSE ready

\* line 120, 130: the interval handle is set
Armed(p) == timer[p] # 0

Goto(p, label) == pc' = [pc EXCEPT ![p] = label]
Active(p) == p \in running /\ pc[p] \notin {"idle", "done", "crashed"}
Mark(p, what) == did' = [did EXCEPT ![p] = [did[p] EXCEPT ![what] = TRUE]]

\* op (ensureLocalApp) settles inside withLock: control reaches the finally block
Settle(p, outcome) ==
    /\ opResult' = [opResult EXCEPT ![p] = outcome]
    /\ Goto(p, "release")

(***************************************************************************)
(* withLock, localApp.ts:100-136                                           *)
(***************************************************************************)
RECURSIVE Sum(_, _)
Sum(f, S) == IF S = {} THEN 0 ELSE LET x == CHOOSE x \in S : TRUE IN f[x] + Sum(f, S \ {x})
\* withLocalApp calls started so far
Calls == Sum(lockCount, Windows)

\* withLocalApp is called (349-353) and withLock starts (101-106). A window
\* starts a call when it has none, when its last call has settled, or while
\* its last call is in the call loop; the model follows the latest call.
Call(p) ==
    /\ p \in running
    /\ pc[p] \in {"idle", "done", "call", "retry"}
    /\ Calls < MaxCalls
    /\ value' = [value EXCEPT ![p] = <<p, lockCount[p]>>]
    /\ lockCount' = [lockCount EXCEPT ![p] = @ + 1]
    /\ token' = [token EXCEPT ![p] = FALSE]
    /\ tokenSource' = [tokenSource EXCEPT ![p] = FALSE]
    /\ config' = [config EXCEPT ![p] = undefined]
    /\ installation' = [installation EXCEPT ![p] = undefined]
    /\ download' = [download EXCEPT ![p] = NoDownload]
    /\ opResult' = [opResult EXCEPT ![p] = NoOutcome]
    /\ result' = [result EXCEPT ![p] = NoOutcome]
    /\ attempts' = [attempts EXCEPT ![p] = 0]
    /\ e' = [e EXCEPT ![p] = ""]
    /\ did' = [did EXCEPT ![p] = NothingDone]
    /\ Goto(p, "acquire")
    /\ UNCHANGED <<globalState, envVars, timer, sweep>>

\* line 108-109: read the record; absent -> write, present -> wait
AcquireRead(p) ==
    /\ p \in running
    /\ pc[p] = "acquire"
    /\ Goto(p, IF Defined(globalState.lock) THEN "wait" ELSE "update")
    /\ UNCHANGED <<globalState, envVars, sweep, lockCount, value, timer, token, tokenSource,
                   ensureVars, callVars>>

\* line 110-111: write the own record
AcquireWrite(p) ==
    /\ p \in running
    /\ pc[p] = "update"
    /\ globalState' = [globalState EXCEPT !.lock = Some(NewLock(p, installLockTimeout))]
    /\ Goto(p, "wait")
    /\ UNCHANGED <<envVars, lockVars, ensureVars, callVars>>

\* line 114-116: wait updateTimeout, re-read, test the loop condition;
\* line 117-125 on exit: tokenSource, forwarding of the caller's token, timer
AcquireVerify(p) ==
    /\ p \in running
    /\ pc[p] = "wait"
    /\ IF HoldsToken(globalState.lock, p)
       THEN /\ timer' = [timer EXCEPT ![p] = 1]
            /\ tokenSource' = [tokenSource EXCEPT ![p] = token[p]]
            /\ Goto(p, "locked")
       ELSE /\ Goto(p, "acquire")
            /\ UNCHANGED <<timer, tokenSource>>
    /\ UNCHANGED <<globalState, envVars, sweep, lockCount, value, token, ensureVars,
                   callVars>>

\* line 120-125: one tick of the renewal interval
TimerTick(p) ==
    /\ p \in running
    /\ Armed(p)
    /\ timer' = [timer EXCEPT ![p] = 3 - @]
    /\ tokenSource' = [tokenSource EXCEPT ![p] = @ \/ ~HoldsToken(globalState.lock, p)]
    /\ UNCHANGED <<globalState, envVars, pc, sweep, lockCount, value, token,
                   ensureVars, callVars>>

\* line 129-135 (finally), then withLocalApp line 353-356; the locals of
\* ensureLocalApp and withLock's tokenSource go out of scope
Release(p) ==
    /\ p \in running
    /\ pc[p] = "release"
    /\ timer' = [timer EXCEPT ![p] = 0]
    /\ globalState' = [globalState EXCEPT !.lock = ReleasedLock(@, p)]
    /\ IF opResult[p].kind # "returned"
       THEN /\ result' = [result EXCEPT ![p] = opResult[p]]
            /\ Goto(p, "done")
       ELSE IF token[p]
       THEN /\ result' = [result EXCEPT ![p] = Cancelled]
            /\ Goto(p, "done")
       ELSE /\ Goto(p, "call")
            /\ UNCHANGED result
    /\ opResult' = [opResult EXCEPT ![p] = NoOutcome]
    /\ installation' = [installation EXCEPT ![p] = undefined]
    /\ download' = [download EXCEPT ![p] = NoDownload]
    /\ did' = [did EXCEPT ![p] = NothingDone]
    /\ tokenSource' = [tokenSource EXCEPT ![p] = FALSE]
    /\ config' = [config EXCEPT ![p] = IF opResult[p].kind = "returned" THEN @ ELSE undefined]
    /\ UNCHANGED <<envVars, sweep, lockCount, value, token, attempts, e>>

\* line 82-93: one run of releaseLocks by window q
releaseStaleLocks(q) ==
    /\ q \in running
    /\ sweep.runs < MaxSweeps
    /\ IF Defined(globalState.lock) /\ IsStale(globalState.lock)
       THEN /\ globalState' = [globalState EXCEPT !.lock = undefined]
            /\ sweep' = [runs |-> sweep.runs + 1,
                         reaped |-> sweep.reaped \cup {Val(globalState.lock).value}]
       ELSE /\ sweep' = [sweep EXCEPT !.runs = @ + 1]
            /\ UNCHANGED globalState
    /\ UNCHANGED <<envVars, pc, lockCount, value, timer, token, tokenSource,
                   ensureVars, callVars>>

(***************************************************************************)
(* ensureLocalApp, localApp.ts:266-347, run as op under the lock           *)
(***************************************************************************)
\* a read that drops every stored config
LiveConfig_NeverReuse(cfg) == undefined

\* line 270: a stored config whose pid is not running is dropped
LiveConfig(cfg) ==
    IF Defined(cfg) /\ ~checkRunning(Val(cfg).pid) THEN undefined ELSE cfg

\* an override test that never sees a change of the path
Switching_Never(inst, configured) == FALSE

\* line 277: the stored installation differs from the configured path
Switching(inst, configured) ==
    Defined(inst) /\ Val(inst).path # Val(configured)

\* an upgrade test that takes every successful probe for a new version
Upgrading_OnEveryProbe(inst, resp) == Defined(inst) /\ resp.ok

\* an upgrade test that needs a tag on the stored side too
Upgrading_StoredTagOnly(inst, resp) ==
    /\ Defined(inst)
    /\ resp.ok
    /\ Defined(resp.etag)
    /\ Defined(Val(inst).etag)
    /\ resp.etag # Val(inst).etag

\* line 309-310: the probe succeeded with an etag unlike the installed one
Upgrading(inst, resp) ==
    /\ Defined(inst)
    /\ resp.ok
    /\ Defined(resp.etag)
    /\ resp.etag # Val(inst).etag

\* a failed probe that is fatal whatever is installed
ProbeFatal_Always(inst, resp) == ~resp.ok

\* a failed probe that is never fatal
ProbeFatal_Never(inst, resp) == FALSE

\* line 334-336: with no installation left, a failed probe is thrown
ProbeFatal(inst, resp) == ~Defined(inst) /\ ~resp.ok

\* line 298-307: the outcome of the probe; a cancellation seen at line 301 is
\* caught by the same try block and becomes the download error
Probe(p, fetched) ==
    IF ~fetched THEN [ok |-> FALSE, etag |-> undefined, err |-> "download"]
    ELSE IF tokenSource[p] THEN [ok |-> FALSE, etag |-> undefined, err |-> "cancelled"]
    ELSE [ok |-> TRUE, etag |-> remoteEtag, err |-> ""]

\* line 267-291 (override set) or 267-275 (no override): one synchronous run.
\* At "access" and "storeConfigured" the local configuredInstallationPath is
\* ConfiguredPath, the only path the setting takes.
EnsureRead(p) ==
    /\ p \in running
    /\ pc[p] = "locked"
    /\ LET cfg == LiveConfig(globalState.config)
           inst == globalState.installation
           configured == configuredInstallationPath
           switch == Defined(configured) /\ Switching(inst, configured)
           cfg2 == IF switch THEN undefined ELSE cfg
       IN /\ installation' = [installation EXCEPT ![p] = IF switch THEN undefined ELSE inst]
          /\ config' = [config EXCEPT ![p] = cfg2]
          /\ IF switch /\ Defined(cfg)
             THEN /\ \E delivered \in BOOLEAN : Kill(Val(cfg).pid, delivered)
                  /\ Mark(p, "killed")
             ELSE UNCHANGED <<running, ready, did>>
          /\ IF ~Defined(configured)
             THEN Goto(p, "download") /\ UNCHANGED opResult
             ELSE IF Defined(cfg2)
             THEN Settle(p, Returned)
             ELSE Goto(p, "access") /\ UNCHANGED opResult
    /\ UNCHANGED <<globalState, now, xok, remoteEtag, configuredInstallationPath,
                   changes, spawned, installed, lockVars, download, result,
                   attempts, e>>

\* an override branch that stores the configured path unchecked
AccessConfigured_Unchecked(p) ==
    /\ p \in running
    /\ pc[p] = "access"
    /\ IF tokenSource[p] THEN Settle(p, Cancelled)
       ELSE Goto(p, "storeConfigured") /\ UNCHANGED opResult
    /\ UNCHANGED <<globalState, envVars, lockVars, ensureVars, result, attempts,
                   e, did>>

\* line 292-293
AccessConfigured(p) ==
    /\ p \in running
    /\ pc[p] = "access"
    /\ IF ConfiguredPath \notin xok THEN Settle(p, Thrown("access"))
       ELSE IF tokenSource[p] THEN Settle(p, Cancelled)
       ELSE Goto(p, "storeConfigured") /\ UNCHANGED opResult
    /\ UNCHANGED <<globalState, envVars, lockVars, ensureVars, result, attempts,
                   e, did>>

\* line 294-296
StoreConfigured(p) ==
    /\ p \in running
    /\ pc[p] = "storeConfigured"
    /\ LET inst == Some([path |-> ConfiguredPath, etag |-> undefined])
       IN /\ installation' = [installation EXCEPT ![p] = inst]
          /\ globalState' = [globalState EXCEPT !.installation = inst]
    /\ IF tokenSource[p] THEN Settle(p, Cancelled)
       ELSE Goto(p, "start") /\ UNCHANGED opResult
    /\ UNCHANGED <<envVars, lockVars, config, download, result, attempts, e, did>>

\* line 298-325, and 334-337 when no installation is left
Download(p) ==
    /\ p \in running
    /\ pc[p] = "download"
    /\ \E fetched \in BOOLEAN :
        LET resp == Probe(p, fetched)
            upgrade == Upgrading(installation[p], resp)
            inst == IF upgrade THEN undefined ELSE installation[p]
            cfg == IF upgrade THEN undefined ELSE config[p]
        IN /\ download' = [download EXCEPT ![p] = resp]
           /\ installation' = [installation EXCEPT ![p] = inst]
           /\ config' = [config EXCEPT ![p] = cfg]
           /\ IF upgrade /\ Defined(config[p])
              THEN /\ \E delivered \in BOOLEAN : Kill(Val(config[p]).pid, delivered)
                   /\ did' = [did EXCEPT ![p] = [@ EXCEPT !.fetch = TRUE, !.killed = TRUE]]
              ELSE /\ Mark(p, "fetch")
                   /\ UNCHANGED <<running, ready>>
           /\ IF Defined(cfg) THEN Settle(p, Returned)
              ELSE IF ProbeFatal(inst, resp) THEN Settle(p, Thrown(resp.err))
              ELSE IF Defined(inst) THEN Goto(p, "accessInstalled") /\ UNCHANGED opResult
              ELSE Goto(p, "install") /\ UNCHANGED opResult
    /\ UNCHANGED <<globalState, now, xok, remoteEtag, configuredInstallationPath,
                   changes, spawned, installed, lockVars, result, attempts, e>>

\* line 326-337
AccessInstalled(p) ==
    /\ p \in running
    /\ pc[p] = "accessInstalled"
    /\ LET inst == IF Val(installation[p]).path \in xok THEN installation[p] ELSE undefined
       IN /\ installation' = [installation EXCEPT ![p] = inst]
          /\ IF tokenSource[p] THEN Settle(p, Cancelled)
             ELSE IF ProbeFatal(inst, download[p]) THEN Settle(p, Thrown(download[p].err))
             ELSE IF Defined(inst) THEN Goto(p, "start") /\ UNCHANGED opResult
             ELSE Goto(p, "install") /\ UNCHANGED opResult
    /\ UNCHANGED <<globalState, envVars, lockVars, config, download, result,
                   attempts, e, did>>

\* line 338, installLocalApp 163-199: a fresh tmp file made executable,
\* or an error (cancellation is checked at 174, 187 and 190)
installLocalApp(p) ==
    /\ p \in running
    /\ pc[p] = "install"
    /\ IF tokenSource[p]
       THEN /\ Settle(p, Cancelled)
            /\ UNCHANGED <<installation, installed, xok, did>>
       ELSE \E written \in BOOLEAN :
            IF written
            THEN /\ installed' = installed + 1
                 /\ xok' = xok \cup {TmpPath(installed + 1)}
                 /\ installation' = [installation EXCEPT ![p] =
                        Some([path |-> TmpPath(installed + 1), etag |-> download[p].etag])]
                 /\ Mark(p, "install")
                 /\ Goto(p, "storeInstallation")
                 /\ UNCHANGED opResult
            ELSE /\ Settle(p, Thrown("install"))
                 /\ UNCHANGED <<installation, installed, xok, did>>
    /\ UNCHANGED <<globalState, now, running, ready, remoteEtag,
                   configuredInstallationPath, changes, spawned, lockVars, config,
                   download, result, attempts, e>>

\* line 339-340
StoreInstallation(p) ==
    /\ p \in running
    /\ pc[p] = "storeInstallation"
    /\ globalState' = [globalState EXCEPT !.installation = installation[p]]
    /\ IF tokenSource[p] THEN Settle(p, Cancelled)
       ELSE Goto(p, "start") /\ UNCHANGED opResult
    /\ UNCHANGED <<envVars, lockVars, ensureVars, result, attempts, e, did>>

\* line 256: the descriptor of the k-th helper started
NewConfig(k, inst) ==
    [gitpodHost |-> gitpodHost, configFile |-> k, apiPort |-> k,
     pid |-> HelperPid(k), logPath |-> Val(inst).path]

\* a catch block that swallows the failure
StartFailure_Swallowed == Returned

\* line 257-260: the failure of the spawn is logged and thrown again
StartFailure == Thrown("spawn")

\* line 343, startLocalApp 201-261: cancellation is checked at 217; the spawn
\* reports 'spawn' (a live detached process) or 'error'/'exit' (none)
startLocalApp(p) ==
    /\ p \in running
    /\ pc[p] = "start"
    /\ IF tokenSource[p]
       THEN /\ Settle(p, Cancelled)
            /\ UNCHANGED <<config, spawned, running, did>>
       ELSE \E started \in BOOLEAN :
            IF started
            THEN /\ spawned' = spawned + 1
                 /\ running' = running \cup {HelperPid(spawned + 1)}
                 /\ config' = [config EXCEPT ![p] = Some(NewConfig(spawned + 1, installation[p]))]
                 /\ Mark(p, "spawn")
                 /\ Goto(p, "storeConfig")
                 /\ UNCHANGED opResult
            ELSE /\ Settle(p, StartFailure)
                 /\ UNCHANGED <<config, spawned, running, did>>
    /\ UNCHANGED <<globalState, now, ready, xok, remoteEtag,
                   configuredInstallationPath, changes, installed, lockVars,
                   installation, download, result, attempts, e>>

\* line 344-346
StoreConfig(p) ==
    /\ p \in running
    /\ pc[p] = "storeConfig"
    /\ globalState' = [globalState EXCEPT !.config = config[p]]
    /\ Settle(p, IF tokenSource[p] THEN Cancelled ELSE Returned)
    /\ UNCHANGED <<envVars, lockVars, ensureVars, result, attempts, e, did>>

(***************************************************************************)
(* withLocalApp's call loop, localApp.ts:357-379                           *)
(***************************************************************************)
\* a retry test that knows one code only
Retryable_UnavailableOnly(code) == code = "Unavailable"

\* a retry test that takes every error for a transient one
Retryable_Any(code) == TRUE

\* line 366: the errors that are retried while the pid is running
Retryable(code) == code \in {"Unavailable", "Unknown"}

\* a retry branch that does not look at the pid
ShouldRetry_IgnoresLiveness(alive, code) == Retryable(code)

\* line 366: the condition of the retry branch
ShouldRetry(alive, code) == alive /\ Retryable(code)

\* what op can come to against the instance: a reachable endpoint answers
\* (a result or an application error), an unreachable one fails the transport
OpOutcomes(pid) ==
    IF pid \in running /\ pid \in ready THEN {"ok", "NotFound"}
    ELSE {"Unavailable", "Unknown"}

\* line 358-378: one invocation of op and the classification of its failure
CallOp(p) ==
    /\ p \in running
    /\ pc[p] = "call"
    /\ attempts' = [attempts EXCEPT ![p] = IF @ < AttemptsCap THEN @ + 1 ELSE @]
    /\ \E out \in OpOutcomes(Val(config[p]).pid) :
        /\ e' = [e EXCEPT ![p] = IF out = "ok" THEN "" ELSE out]
        /\ IF token[p]
           THEN /\ result' = [result EXCEPT ![p] = Cancelled]
                /\ Goto(p, "done")
           ELSE IF out = "ok"
           THEN /\ result' = [result EXCEPT ![p] = Returned]
                /\ Goto(p, "done")
           ELSE IF ShouldRetry(checkRunning(Val(config[p]).pid), out)
           THEN /\ Goto(p, "retry")
                /\ UNCHANGED result
           ELSE /\ result' = [result EXCEPT ![p] = RpcError(out)]
                /\ Goto(p, "done")
    /\ UNCHANGED <<globalState, envVars, lockVars, ensureVars, opResult, did>>

\* a retry that does not look at the token after the delay
Retry_NoCancelCheck(p) ==
    /\ p \in running
    /\ pc[p] = "retry"
    /\ Goto(p, "call")
    /\ UNCHANGED <<globalState, envVars, lockVars, ensureVars, opResult, result,
                   attempts, e, did>>

\* line 369-371: the 1s delay, then the cancellation check
Retry(p) ==
    /\ p \in running
    /\ pc[p] = "retry"
    /\ IF token[p]
       THEN /\ result' = [result EXCEPT ![p] = Cancelled]
            /\ Goto(p, "done")
       ELSE /\ Goto(p, "call")
            /\ UNCHANGED result
    /\ UNCHANGED <<globalState, envVars, lockVars, ensureVars, opResult, attempts,
                   e, did>>

(***************************************************************************)
(* Environment                                                             *)
(***************************************************************************)
\* the caller cancels its token; line 119 forwards it once withLock holds
Cancel(p) ==
    /\ Active(p)
    /\ ~token[p]
    /\ token' = [token EXCEPT ![p] = TRUE]
    /\ tokenSource' = [tokenSource EXCEPT ![p] = @ \/ Armed(p)]
    /\ UNCHANGED <<globalState, envVars, pc, sweep, lockCount, value, timer,
                   ensureVars, callVars>>

\* Date.now() advances by one lease length
Tick ==
    /\ now < MaxTicks * LeaseLength
    /\ now' = now + LeaseLength
    /\ UNCHANGED <<globalState, running, ready, xok, remoteEtag,
                   configuredInstallationPath, changes, spawned, installed, pc,
                   lockVars, ensureVars, callVars>>

Change == changes < MaxChanges /\ changes' = changes + 1

\* an editor window exits (its timers die with it)
Crash(p) ==
    /\ Active(p)
    /\ Change
    /\ running' = running \ {p}
    /\ timer' = [timer EXCEPT ![p] = 0]
    /\ Goto(p, "crashed")
    /\ UNCHANGED <<globalState, now, ready, xok, remoteEtag,
                   configuredInstallationPath, spawned, installed, sweep, lockCount, value,
                   token, tokenSource, ensureVars, callVars>>

\* a helper process exits on its own
HelperExit(h) ==
    /\ h \in running \ Windows
    /\ Change
    /\ running' = running \ {h}
    /\ ready' = ready \ {h}
    /\ UNCHANGED <<globalState, now, xok, remoteEtag, configuredInstallationPath,
                   spawned, installed, pc, lockVars, ensureVars, callVars>>

\* a helper's RPC server finishes binding its port
BecomeReady(h) ==
    /\ h \in running \ Windows
    /\ h \notin ready
    /\ ready' = ready \cup {h}
    /\ UNCHANGED <<globalState, now, running, xok, remoteEtag,
                   configuredInstallationPath, changes, spawned, installed, pc,
                   lockVars, ensureVars, callVars>>

\* the download endpoint starts serving another etag
ChangeTag ==
    /\ Change
    /\ remoteEtag' \in ({undefined} \cup {Some(t) : t \in Tags}) \ {remoteEtag}
    /\ UNCHANGED <<globalState, now, running, ready, xok, configuredInstallationPath,
                   spawned, installed, pc, lockVars, ensureVars, callVars>>

\* the user sets or clears gitpod.installationPath
ChangeOverride ==
    /\ Change
    /\ configuredInstallationPath' =
          IF Defined(configuredInstallationPath) THEN undefined ELSE Some(ConfiguredPath)
    /\ UNCHANGED <<globalState, now, running, ready, xok, remoteEtag, spawned,
                   installed, pc, lockVars, ensureVars, callVars>>

\* a binary is removed or loses its executable bit
RemoveBinary ==
    /\ Change
    /\ \E path \in xok : xok' = xok \ {path}
    /\ UNCHANGED <<globalState, now, running, ready, remoteEtag,
                   configuredInstallationPath, spawned, installed, pc, lockVars,
                   ensureVars, callVars>>

(***************************************************************************)
(* Specifications                                                          *)
(***************************************************************************)
LockStep(p) ==
    \/ Call(p) \/ AcquireRead(p) \/ AcquireWrite(p) \/ AcquireVerify(p)
    \/ TimerTick(p) \/ Release(p)

EnsureStep(p) ==
    \/ EnsureRead(p) \/ AccessConfigured(p) \/ StoreConfigured(p) \/ Download(p)
    \/ AccessInstalled(p) \/ installLocalApp(p) \/ StoreInstallation(p)
    \/ startLocalApp(p) \/ StoreConfig(p)

Helpers == (NumWindows + 1)..(NumWindows + spawned)

\* Spec: windows running withLocalApp up to its call loop (withLock around
\* ensureLocalApp) against one shared store, while callers cancel, the
\* download endpoint, the setting and the binaries change and helpers exit.
Next ==
    \/ \E p \in Windows : LockStep(p) \/ EnsureStep(p) \/ Cancel(p)
    \/ ChangeTag \/ ChangeOverride \/ RemoveBinary
    \/ \E h \in Helpers : HelperExit(h)

Spec == Init /\ [][Next]_vars

\* LockSpec: withLock by itself. withLock is generic in op; here op is any
\* operation that touches nothing but its token: it runs for any length of
\* time and then returns, throws, or throws because its token is cancelled.
Op(p) ==
    /\ p \in running
    /\ pc[p] = "locked"
    /\ \E outcome \in {Returned, Thrown("error"), Cancelled} :
        /\ outcome = Cancelled => tokenSource[p]
        /\ Settle(p, outcome)
    /\ UNCHANGED <<globalState, envVars, lockVars, ensureVars, result, attempts, e, did>>

LockInit ==
    /\ Init
    /\ xok = {}
    /\ remoteEtag = undefined
    /\ configuredInstallationPath = undefined

\* Time passes, windows exit and every window runs its sweep.
LockNext ==
    \/ \E p \in Windows : LockStep(p) \/ Op(p) \/ releaseStaleLocks(p)
                             \/ Cancel(p) \/ Crash(p)
    \/ Tick

LockSpec == LockInit /\ [][LockNext]_vars

\* LockFairSpec: LockSpec under the scheduling the program runs with: the
\* event loop runs every continuation of the acquire loop that is due, every
\* op settles and is followed by the finally block, and every live window's
\* sweep interval (checkStaleInterval) keeps firing.
LockFairSpec ==
    /\ LockInit
    /\ [][LockNext]_vars
    /\ \A p \in Windows :
          /\ WF_vars(AcquireRead(p))
          /\ WF_vars(AcquireWrite(p))
          /\ WF_vars(AcquireVerify(p))
          /\ WF_vars(Op(p))
          /\ WF_vars(Release(p))
          /\ WF_vars(releaseStaleLocks(p))

\* CallSpec: the call loop of withLocalApp by itself. It starts where Spec
\* leaves two windows: the first call installed tmp file 1 and started helper
\* 1, the second reused its descriptor, and both are about to invoke op.
FirstInstallation == [path |-> TmpPath(1), etag |-> Some("v1")]

CallInit ==
    /\ globalState = [lock |-> undefined,
                      installation |-> Some(FirstInstallation),
                      config |-> Some(NewConfig(1, Some(FirstInstallation)))]
    /\ now = 0
    /\ running = Windows \cup {HelperPid(1)}
    /\ ready = {}
    /\ xok = {TmpPath(1)}
    /\ remoteEtag = Some("v1")
    /\ configuredInstallationPath = undefined
    /\ changes = 0
    /\ spawned = 1
    /\ installed = 1
    /\ pc = [p \in Windows |-> "call"]
    /\ lockCount = [p \in Windows |-> 1]
    /\ value = [p \in Windows |-> <<p, 0>>]
    /\ timer = [p \in Windows |-> 0]
    /\ token = [p \in Windows |-> FALSE]
    /\ tokenSource = [p \in Windows |-> FALSE]
    /\ config = [p \in Windows |-> Some(NewConfig(1, Some(FirstInstallation)))]
    /\ installation = [p \in Windows |-> undefined]
    /\ download = [p \in Windows |-> NoDownload]
    /\ opResult = [p \in Windows |-> NoOutcome]
    /\ result = [p \in Windows |-> NoOutcome]
    /\ attempts = [p \in Windows |-> 0]
    /\ e = [p \in Windows |-> ""]
    /\ did = [p \in Windows |-> NothingDone]
    /\ sweep = [runs |-> 0, reaped |-> {}]

CallNext ==
    \/ \E p \in Windows : CallOp(p) \/ Retry(p) \/ Cancel(p)
    \/ \E h \in Helpers : HelperExit(h) \/ BecomeReady(h)

\* The event loop runs every continuation that is due, and a live helper
\* finishes binding its port.
CallSpec ==
    /\ CallInit
    /\ [][CallNext]_vars
    /\ \A p \in Windows : WF_vars(CallOp(p)) /\ WF_vars(Retry(p))
    /\ \A h \in {HelperPid(1)} : WF_vars(BecomeReady(h))

(***************************************************************************)
(* Properties                                                              *)
(***************************************************************************)
AcquirePcs == {"acquire", "update", "wait"}
OpPcs == {"locked", "access", "storeConfigured", "download", "accessInstalled",
          "install", "storeInstallation", "start", "storeConfig"}
\* withLock has settled (withLocalApp goes on, or has failed)
SettledPcs == {"call", "retry", "done"}

\* window p has left the acquire loop and its op has not settled yet
RunningOp(p) == pc[p] \in OpPcs

\* C1: mutual exclusion of withLock: no two windows have both left the
\* acquire loop for the same lock name and are both still running their op.
C1_MutualExclusion ==
    \A p, q \in Windows : p # q => ~(RunningOp(p) /\ RunningOp(q))

\* C2: end to end: when two windows have run the locked ensure concurrently
\* from an empty store, with no override, no cancellation and no change of
\* the environment, and both came back with a descriptor, exactly one binary
\* was installed, exactly one helper was started and both hold the same
\* descriptor.
C2_ExactlyOneInstallAndSpawn ==
    ( /\ \A p \in Windows : pc[p] = "call" /\ lockCount[p] = 1 /\ ~token[p]
      /\ configuredInstallationPath = undefined
      /\ changes = 0 )
    => /\ installed = 1
       /\ spawned = 1
       /\ \A p, q \in Windows : config[p] = config[q]

\* C3: at most one live helper process for the host identity, in every
\* reachable state.
C3_AtMostOneLiveHelper ==
    Cardinality(running \ Windows) <= 1

\* C4: guaranteed release: once withLock has settled, whichever way op
\* finished, the caller's renewal timer is stopped and no record carrying
\* its token is left under the lock key.
C4_GuaranteedRelease ==
    \A p \in Windows :
        pc[p] \in SettledPcs =>
            /\ ~Armed(p)
            /\ ~(Defined(globalState.lock) /\ Val(globalState.lock).value = value[p])

\* C4 witness: one call settled after its op threw on cancellation, another
\* after its op threw an error, and the store holds no lock record.
C4_Witness ==
    /\ \E p \in Windows : pc[p] = "done" /\ result[p].kind = "cancelled"
    /\ \E p \in Windows : pc[p] = "done" /\ result[p].kind = "error"
    /\ globalState.lock = undefined

\* C5: cancellation while waiting for the lock: once the caller's token has
\* fired while the call is in the acquire loop behind another live holder,
\* the call polls no further: its next step fails the call, and it neither
\* writes a record nor runs op.
C5_CancelledWhileWaiting ==
    [][\A p \in Windows :
          ( /\ token[p]
            /\ pc[p] \in AcquirePcs
            /\ Defined(globalState.lock)
            /\ Val(globalState.lock).value # value[p]
            /\ Val(globalState.lock).pid \in running
            /\ now < Val(globalState.lock).deadline )
          => pc'[p] \in {pc[p], "done", "crashed"}]_vars

\* C6: stale-lock reclamation: a record whose deadline has passed, or whose
\* owner pid is not a live process, is gone after the next run of the sweep
\* by any window.
C6_SweepReclaims ==
    [][\A q \in Windows :
          ( /\ releaseStaleLocks(q)
            /\ Defined(globalState.lock)
            /\ \/ now >= Val(globalState.lock).deadline
               \/ Val(globalState.lock).pid \notin running )
          => globalState'.lock = undefined]_vars

\* C6 witness: the holder's window exited, a sweep deleted its record, and a
\* waiting acquirer now holds the lock.
C6_Witness ==
    \E p, q \in Windows :
        /\ pc[q] = "crashed"
        /\ value[q] \in sweep.reaped
        /\ pc[p] = "locked"
        /\ Defined(globalState.lock)
        /\ Val(globalState.lock).value = value[p]

InstancePid(p) == Val(config[p]).pid

\* C7: retry until ready: a call that is waiting to retry (op failed with an
\* endpoint-unreachable or unknown-state error against a live pid) eventually
\* settles, and it never settles with such an error while the pid is alive:
\* it returns op's result once the endpoint answers, unless the caller
\* cancels, the instance exits or op fails with another error.
C7_RetryUntilReady ==
    /\ \A p \in Windows :
          (pc[p] = "retry") ~>
              ( /\ pc[p] = "done"
                /\ \/ result[p].kind = "returned"
                   \/ result[p].kind = "cancelled" /\ token[p]
                   \/ result[p].kind = "rpc" /\ InstancePid(p) \notin running
                   \/ result[p].kind = "rpc"
                        /\ result[p].code \notin {"Unavailable", "Unknown"} )
    /\ [](\A p \in Windows :
            (pc[p] = "done" /\ result[p].kind = "rpc"
                /\ result[p].code \in {"Unavailable", "Unknown"})
            => InstancePid(p) \notin running)

\* C7 witness: a call returned op's result after at least one retry, with
\* the instance alive and the caller not cancelling.
C7_Witness ==
    \E p \in Windows :
        /\ pc[p] = "done"
        /\ result[p].kind = "returned"
        /\ attempts[p] >= 2
        /\ ~token[p]
        /\ InstancePid(p) \in running

C9_NonRetryableFatal ==
    \A p \in Windows :
        e[p] \notin {"", "Unavailable", "Unknown"} =>
            /\ pc[p] = "done"
            /\ IF token[p] THEN result[p] = Cancelled ELSE result[p] = RpcError(e[p])

\* C9 witness: the first invocation of op failed with NotFound against a
\* live instance and the call settled with that error.
C9_Witness ==
    \E p \in Windows :
        /\ pc[p] = "done"
        /\ attempts[p] = 1
        /\ e[p] = "NotFound"
        /\ result[p] = RpcError("NotFound")
        /\ InstancePid(p) \in running

\* C10 as stated: the second of two successive ensure runs of a window, with
\* no override, that finds the stored installation valid (it goes on to start
\* the helper, or returns, without installing) has issued no request to the
\* download endpoint.
C10_NoRequestWhenValid ==
    \A p \in Windows :
        ( /\ lockCount[p] = 2
          /\ pc[p] \in {"start", "release"}
          /\ pc[p] = "release" => opResult[p] = Returned
          /\ Defined(installation[p])
          /\ Val(installation[p]).path # ConfiguredPath
          /\ ~did[p].install )
        => ~did[p].fetch

\* C10 as amended: an ensure run with no override that finds a stored
\* installation probes the download endpoint; when the probe's tag equals the
\* stored tag it keeps that installation record, and when the binary is
\* executable it goes on to start the helper (or returns) without installing.
C10_Idempotent ==
    [][\A p \in Windows :
          /\ ( /\ pc[p] = "download" /\ pc'[p] # "download"
               /\ Defined(installation[p])
               /\ download'[p].ok
               /\ download'[p].etag = Val(installation[p]).etag )
             => /\ did'[p].fetch
                /\ installation'[p] = installation[p]
                /\ pc'[p] \in {"accessInstalled", "release"}
          /\ ( /\ pc[p] = "accessInstalled" /\ pc'[p] # "accessInstalled"
               /\ Val(installation[p]).path \in xok )
             => /\ installation'[p] = installation[p]
                /\ ~did'[p].install
                /\ pc'[p] \in {"start", "release"}
                /\ globalState'.installation = globalState.installation]_vars

\* C10 witness: the second ensure run of a window (the first installed tmp
\* file 1) probed, installed nothing and is about to start the helper from
\* the stored record.
C10_Witness ==
    \E p \in Windows :
        /\ pc[p] = "start"
        /\ did[p].fetch /\ ~did[p].install
        /\ download[p].ok
        /\ installed = 1
        /\ lockCount[p] = 2
        /\ installation[p] = globalState.installation
        /\ Defined(installation[p])
        /\ Val(installation[p]).path = TmpPath(1)

\* C11: override change ordering: an ensure run that finds a stored
\* installation whose path differs from the configured one sends the running
\* instance (if any) a termination signal and drops it, in a step that leaves
\* installation/<host> as it was; the record for the configured path is
\* written later, with no instance reused, and a run that killed an instance
\* returns only an instance it spawned itself.
C11_OverrideChange ==
    /\ [][\A p \in Windows :
            ( /\ pc[p] = "locked" /\ pc'[p] # "locked"
              /\ Defined(configuredInstallationPath)
              /\ Defined(globalState.installation)
              /\ Val(globalState.installation).path # Val(configuredInstallationPath) )
            => /\ config'[p] = undefined
               /\ pc'[p] = "access"
               /\ globalState' = globalState
               /\ ( Defined(globalState.config)
                      /\ Val(globalState.config).pid \in running )
                  => did'[p].killed]_vars
    /\ [](\A p \in Windows :
            /\ pc[p] \in {"access", "storeConfigured"} => config[p] = undefined
            /\ (pc[p] = "release" /\ opResult[p] = Returned /\ did[p].killed)
                  => did[p].spawn)

\* C11 witness: a run that killed the instance of the downloaded binary is
\* about to write the record for the configured path, which the store does
\* not hold yet.
C11_Witness ==
    \E p \in Windows :
        /\ pc[p] = "storeConfigured"
        /\ did[p].killed
        /\ Defined(globalState.config)
        /\ Defined(globalState.installation)
        /\ Val(globalState.installation).path = TmpPath(1)

\* C12 as stated: an ensure run with no override whose probe succeeds with a
\* tag unlike the stored one, an absent tag on either side included, discards
\* the installation and goes on to reinstall.
C12_UpgradeOnAnyDifference ==
    [][\A p \in Windows :
          ( /\ pc[p] = "download" /\ pc'[p] # "download"
            /\ Defined(installation[p])
            /\ download'[p].ok
            /\ download'[p].etag # Val(installation[p]).etag )
          => /\ installation'[p] = undefined
             /\ pc'[p] = "install"]_vars

\* C12 as amended: an ensure run with no override whose probe succeeds with a
\* tag that is present and unlike the stored one (which may be absent)
\* discards the installation and the instance, sends the instance (if any) a
\* termination signal and goes on to reinstall; the record it then writes to
\* the store carries the probe's tag, and when it returns it returns an
\* instance it spawned itself from that installation.
C12_UpgradeOnTagChange ==
    /\ [][\A p \in Windows :
            /\ ( /\ pc[p] = "download" /\ pc'[p] # "download"
                 /\ Defined(installation[p])
                 /\ download'[p].ok
                 /\ Defined(download'[p].etag)
                 /\ download'[p].etag # Val(installation[p]).etag )
               => /\ installation'[p] = undefined
                  /\ config'[p] = undefined
                  /\ Defined(config[p]) => did'[p].killed
                  /\ pc'[p] = "install"
            /\ ( pc[p] = "storeInstallation" /\ pc'[p] # "storeInstallation" )
               => /\ Defined(globalState'.installation)
                  /\ Val(globalState'.installation).etag = download[p].etag]_vars
    /\ [](\A p \in Windows :
            (pc[p] = "release" /\ opResult[p] = Returned /\ did[p].install)
               => /\ did[p].spawn
                  /\ Val(config[p]).logPath = Val(installation[p]).path
                  /\ Val(installation[p]).etag = download[p].etag)

\* C12 witness: the second run of a window found the stored record without a
\* tag, the probe served one, and the run killed the instance, reinstalled
\* and returned a new instance.
C12_Witness ==
    \E p \in Windows :
        /\ pc[p] = "release" /\ opResult[p] = Returned
        /\ did[p].killed /\ did[p].install /\ did[p].spawn
        /\ installed = 2
        /\ globalState.installation = installation[p]
        /\ Defined(Val(installation[p]).etag)

\* C13: offline tolerance: an ensure run with no override whose probe failed
\* and which holds a stored installation does not fail with the probe error:
\* it returns the live stored instance when there is one, and otherwise, the
\* binary being executable (and the run not cancelled), goes on to start the
\* helper from that same installation.
C13_OfflineTolerance ==
    /\ [][\A p \in Windows :
            /\ ( /\ pc[p] = "download" /\ pc'[p] # "download"
                 /\ Defined(installation[p])
                 /\ ~download'[p].ok )
               => /\ installation'[p] = installation[p]
                  /\ spawned' = spawned
                  /\ IF Defined(config[p])
                     THEN /\ pc'[p] = "release"
                          /\ opResult'[p] = Returned
                          /\ config'[p] = config[p]
                     ELSE pc'[p] = "accessInstalled"
            /\ ( /\ pc[p] = "accessInstalled" /\ pc'[p] # "accessInstalled"
                 /\ ~download[p].ok
                 /\ Val(installation[p]).path \in xok
                 /\ ~tokenSource[p] )
               => /\ pc'[p] = "start"
                  /\ installation'[p] = installation[p]
            /\ ( pc[p] = "start" /\ pc'[p] = "storeConfig" )
               => /\ Val(config'[p]).logPath = Val(installation[p]).path
                  /\ Val(config'[p]).pid \in running' \ running]_vars
    /\ [](\A p \in Windows :
            (pc[p] = "release" /\ opResult[p].kind = "download")
               => ~Defined(installation[p]))

\* C13 witness: the probe failed, nothing was installed in this run, and the
\* helper has been started from the stored installation.
C13_Witness ==
    \E p \in Windows :
        /\ pc[p] = "storeConfig"
        /\ download[p].err = "download"
        /\ did[p].spawn /\ ~did[p].install
        /\ installation[p] = globalState.installation
        /\ Val(config[p]).logPath = TmpPath(1)

\* C14: probe failure with no usable installation: an ensure run with no
\* override whose probe failed, with no live instance and no installation
\* left (none stored, or the stored binary not executable), fails with the
\* probe error (with the cancelled error when its token fired meanwhile),
\* starts no process and writes nothing to the store; the release that
\* follows deletes the lock record, leaves installation/<host> and
\* config/<host> alone and fails the call with that error.
C14_ProbeFailureFatal ==
    [][\A p \in Windows :
          /\ ( /\ pc[p] = "download" /\ pc'[p] # "download"
               /\ ~Defined(installation[p])
               /\ ~Defined(config[p])
               /\ ~download'[p].ok )
             => /\ pc'[p] = "release"
                /\ opResult'[p] = Thrown(download'[p].err)
                /\ spawned' = spawned
                /\ globalState' = globalState
          /\ ( /\ pc[p] = "accessInstalled" /\ pc'[p] # "accessInstalled"
               /\ ~download[p].ok
               /\ Val(installation[p]).path \notin xok )
             => /\ pc'[p] = "release"
                /\ opResult'[p] = IF tokenSource[p] THEN Cancelled
                                  ELSE Thrown(download[p].err)
                /\ spawned' = spawned
                /\ globalState' = globalState
          /\ ( /\ pc[p] = "release" /\ pc'[p] # "release"
               /\ opResult[p].kind = "download" )
             => /\ pc'[p] = "done"
                /\ result'[p] = opResult[p]
                /\ timer'[p] = 0
                /\ globalState'.lock = undefined
                /\ globalState'.installation = globalState.installation
                /\ globalState'.config = globalState.config
                /\ spawned' = spawned]_vars

\* C14 witness: a call failed with the probe error because the stored binary
\* is no longer executable; no helper was ever started and no lock is left.
C14_Witness ==
    \E p \in Windows :
        /\ pc[p] = "done"
        /\ result[p] = Thrown("download")
        /\ Defined(globalState.installation)
        /\ Val(globalState.installation).path \notin xok
        /\ globalState.config = undefined
        /\ globalState.lock = undefined
        /\ spawned = 0

\* C15: mutation only under the lock: whenever a window writes
\* installation/<host> or config/<host>, the record under lock/<host> at that
\* moment carries the writer's own token.
C15_WritesUnderLock ==
    [][\A p \in Windows :
          ( /\ pc[p] \in {"storeConfigured", "storeInstallation", "storeConfig"}
            /\ pc'[p] # pc[p] )
          => /\ Defined(globalState.lock)
             /\ Val(globalState.lock).value = value[p]]_vars

\* C16: lost-lock detection: a run of the renewal callback of a holder whose
\* op is running, with the record under the lock key absent or carrying
\* another token, leaves op's token cancelled; a cancellation of the caller's
\* token while op is running leaves op's token cancelled; and op's token,
\* once cancelled, stays cancelled for as long as op runs.
C16_LostLockDetection ==
    [][\A p \in Windows :
          /\ ( /\ pc[p] = "locked"
               /\ timer[p] # 0 /\ timer'[p] # 0 /\ timer'[p] # timer[p]
               /\ ~(Defined(globalState.lock) /\ Val(globalState.lock).value = value[p]) )
             => tokenSource'[p]
          /\ ( pc[p] = "locked" /\ ~token[p] /\ token'[p] )
             => tokenSource'[p]
          /\ ( pc[p] = "locked" /\ pc'[p] = "locked" /\ tokenSource[p] )
             => tokenSource'[p]]_vars

\* C16 witness: the holder's op is running, the caller has not cancelled, the
\* record under the lock key carries another window's token, and op's token
\* is cancelled.
C16_Witness ==
    \E p \in Windows :
        /\ pc[p] = "locked"
        /\ tokenSource[p]
        /\ ~token[p]
        /\ Defined(globalState.lock)
        /\ Val(globalState.lock).value # value[p]

\* C17: lease renewal: a sweep never deletes the record of a live holder
\* whose op is still running, however long the op runs.
C17_LeaseRenewed ==
    [][\A p \in Windows :
          ( /\ pc[p] = "locked"
            /\ p \in running
            /\ Defined(globalState.lock)
            /\ Val(globalState.lock).value = value[p]
            /\ sweep'.runs # sweep.runs )
          => globalState'.lock = globalState.lock]_vars

\* C18: acquisition over a non-live record: an acquirer that reads a record
\* whose deadline has passed or whose owner pid is not running goes on to
\* write its own record.
C18_AcquiresOverStaleRecord ==
    [][\A p \in Windows :
          ( /\ pc[p] = "acquire" /\ pc'[p] \notin {"acquire", "crashed"}
            /\ Defined(globalState.lock)
            /\ \/ now >= Val(globalState.lock).deadline
               \/ Val(globalState.lock).pid \notin running )
          => pc'[p] = "update"]_vars

\* C19: reuse fast path: an ensure run that reads a stored config whose pid
\* is alive and detects neither an override change (the stored installation's
\* path is the configured one) nor a tag change (the probe failed, or carries
\* no tag, or carries the stored tag) returns exactly the record it read,
\* starts and ends no process and leaves the store as it is; hence a window
\* that calls twice in a row, nothing else changing, starts at most one helper.
C19_ReuseFastPath ==
    /\ [][\A p \in Windows :
            /\ ( /\ pc[p] = "locked" /\ pc'[p] # "locked"
                 /\ Defined(globalState.config)
                 /\ Val(globalState.config).pid \in running
                 /\ Defined(configuredInstallationPath)
                 /\ ~( /\ Defined(globalState.installation)
                       /\ Val(globalState.installation).path
                             # Val(configuredInstallationPath) ) )
               => /\ pc'[p] = "release"
                  /\ opResult'[p] = Returned
                  /\ config'[p] = globalState.config
                  /\ spawned' = spawned /\ running' = running
                  /\ globalState' = globalState
            /\ ( /\ pc[p] = "locked" /\ pc'[p] # "locked"
                 /\ Defined(globalState.config)
                 /\ Val(globalState.config).pid \in running
                 /\ ~Defined(configuredInstallationPath) )
               => /\ pc'[p] = "download"
                  /\ config'[p] = globalState.config
            /\ ( /\ pc[p] = "download" /\ pc'[p] # "download"
                 /\ Defined(config[p])
                 /\ ~( /\ Defined(installation[p])
                       /\ download'[p].ok
                       /\ Defined(download'[p].etag)
                       /\ download'[p].etag # Val(installation[p]).etag ) )
               => /\ pc'[p] = "release"
                  /\ opResult'[p] = Returned
                  /\ config'[p] = config[p]
                  /\ spawned' = spawned /\ running' = running
                  /\ globalState' = globalState]_vars
    /\ [](\A p \in Windows :
            ( /\ lockCount[p] = Calls
              /\ changes = 0
              /\ pc[p] \in SettledPcs )
            => spawned <= 1)

\* C19 witness: the second call of a window came back with the descriptor
\* the first call stored, and one helper has been started in all.
C19_Witness ==
    \E p \in Windows :
        /\ pc[p] = "call"
        /\ lockCount[p] = 2
        /\ spawned = 1
        /\ config[p] = globalState.config
        /\ Val(config[p]).pid \in running

\* C20: stored invalidation: when an ensure run drops its installation as
\* superseded, missing or not executable, installation/<host> in the store
\* is absent from then on.
C20_StoreInvalidated ==
    [][\A p \in Windows :
          ( /\ pc[p] \in {"download", "accessInstalled"}
            /\ Defined(installation[p])
            /\ ~Defined(installation'[p]) )
          => globalState'.installation = undefined]_vars

\* C21: override takes strict precedence: an ensure run that reads a
\* configured path never goes to the probe (a request to the download
\* endpoint is only ever issued by a run that read no override, and never by
\* a run in the override branch); the record {configured path, no tag} is
\* written by the step after the executability check has passed; when the
\* check fails the run fails with the check's error, writes nothing to the
\* store and starts no process.
C21_OverridePrecedence ==
    /\ [][\A p \in Windows :
            /\ ( /\ pc[p] = "locked" /\ pc'[p] # "locked"
                 /\ Defined(configuredInstallationPath) )
               => /\ pc'[p] \in {"access", "release"}
                  /\ ~did'[p].fetch
                  /\ globalState' = globalState
            /\ ( pc[p] # "download" /\ pc'[p] = "download" )
               => ( pc[p] = "locked" /\ ~Defined(configuredInstallationPath) )
            /\ ( ~did[p].fetch /\ did'[p].fetch ) => pc[p] = "download"
            /\ ( /\ pc[p] = "access" /\ pc'[p] # "access"
                 /\ ConfiguredPath \notin xok )
               => /\ pc'[p] = "release"
                  /\ opResult'[p] = Thrown("access")
                  /\ globalState' = globalState
                  /\ spawned' = spawned /\ running' = running
            /\ ( /\ pc[p] = "access" /\ pc'[p] # "access"
                 /\ ConfiguredPath \in xok )
               => /\ pc'[p] \in {"storeConfigured", "release"}
                  /\ globalState' = globalState
            /\ ( pc[p] = "storeConfigured" /\ pc'[p] # "storeConfigured" )
               => /\ globalState'.installation
                       = Some([path |-> ConfiguredPath, etag |-> undefined])
                  /\ pc'[p] \in {"start", "release"}]_vars
    /\ [](\A p \in Windows :
            pc[p] \in {"access", "storeConfigured"}
               => ~did[p].fetch /\ ~did[p].install)

\* C21 witness: with an override set, a stored record of a downloaded binary
\* and a configured path that is not executable, the run failed at the check:
\* the store still holds the old record.
C21_Witness ==
    \E p \in Windows :
        /\ pc[p] = "release"
        /\ opResult[p] = Thrown("access")
        /\ ~did[p].fetch
        /\ Defined(configuredInstallationPath)
        /\ Defined(globalState.installation)
        /\ Val(globalState.installation).path = TmpPath(1)

\* C22: spawn failure: a run of startLocalApp that is not cancelled and
\* starts no helper fails the ensure run with the spawn's error and writes
\* nothing to the store; the release that follows deletes the lock record,
\* leaves config/<host> as it was and fails the call with that error.
C22_SpawnFailure ==
    [][\A p \in Windows :
          /\ ( /\ pc[p] = "start" /\ pc'[p] # "start"
               /\ ~tokenSource[p]
               /\ spawned' = spawned )
             => /\ pc'[p] = "release"
                /\ opResult'[p] = Thrown("spawn")
                /\ config'[p] = config[p]
                /\ running' = running
                /\ globalState' = globalState
          /\ ( /\ pc[p] = "release" /\ pc'[p] # "release"
               /\ opResult[p].kind = "spawn" )
             => /\ pc'[p] = "done"
                /\ result'[p] = Thrown("spawn")
                /\ timer'[p] = 0
                /\ globalState'.lock = undefined
                /\ globalState'.config = globalState.config
                /\ spawned' = spawned]_vars

\* C22 witness: the first call of a window failed at the spawn; its second
\* call found the lock free, took the stored installation and started the
\* helper.
C22_Witness ==
    \E p \in Windows :
        /\ lockCount[p] = 2
        /\ result[p] = NoOutcome
        /\ pc[p] = "storeConfig"
        /\ did[p].spawn /\ ~did[p].install
        /\ spawned = 1
        /\ installed = 1
        /\ globalState.config = undefined

\* C23: cancellation bounds the retry loop: an invocation of op is started
\* only by a caller whose token is not cancelled; a call whose token is
\* cancelled leaves the invocation in flight, or the retry delay, only by
\* failing with the cancelled error, whatever op came to, and counts no
\* further invocation; the delay is entered only after a failure with a
\* retryable code against a pid found alive; and under fair scheduling a
\* cancelled call does terminate with the cancelled error.
C23_CancellationBoundsRetry ==
    /\ [][\A p \in Windows :
            /\ ( pc[p] # "call" /\ pc'[p] = "call" ) => ~token[p]
            /\ ( token[p] /\ pc[p] \in {"call", "retry"} /\ pc'[p] # pc[p] )
               => /\ pc'[p] = "done"
                  /\ result'[p] = Cancelled
            /\ ( token[p] /\ pc[p] = "retry" ) => attempts'[p] = attempts[p]
            /\ ( pc[p] = "call" /\ pc'[p] = "retry" )
               => /\ InstancePid(p) \in running
                  /\ e'[p] \in {"Unavailable", "Unknown"}]_vars
    /\ \A p \in Windows :
          (token[p] /\ pc[p] \in {"call", "retry"})
             ~> (pc[p] = "done" /\ result[p] = Cancelled)

\* C23 witness: a call was cancelled after its first invocation of op had
\* failed with Unavailable against a live instance, and it ended with the
\* cancelled error after that one invocation.
C23_Witness ==
    \E p \in Windows :
        /\ pc[p] = "done"
        /\ token[p]
        /\ result[p] = Cancelled
        /\ attempts[p] = 1
        /\ e[p] = "Unavailable"
        /\ InstancePid(p) \in running

\* C24: release does not break another holder's lock: a holder that finishes
\* its op while the record under the lock key carries another acquirer's
\* token leaves that record in place when it releases.
C24_ReleaseKeepsOthersRecord ==
    [][\A p \in Windows :
          ( /\ pc[p] = "release" /\ pc'[p] \notin {"release", "crashed"}
            /\ Defined(globalState.lock)
            /\ Val(globalState.lock).value # value[p] )
          => globalState'.lock = globalState.lock]_vars

\* a live window is in the acquire loop of withLock
Waiting(p) == p \in running /\ pc[p] \in AcquirePcs

\* the record of an owner that exited is left with no sweep to come
Orphaned ==
    /\ Defined(globalState.lock)
    /\ Val(globalState.lock).pid \notin running
    /\ sweep.runs >= MaxSweeps

\* C25: acquisition progress: under fair scheduling, whenever a live window
\* is in the acquire loop, some window is later past the loop, running its op
\* (unless every waiting window has exited, or the record of an owner that
\* exited is never swept): the contenders cannot go on overwriting and
\* rejecting each other forever.
C25_AcquisitionProgress ==
    (\E p \in Windows : Waiting(p) /\ \A q \in Windows : pc[q] # "locked")
        ~> ( \/ \E q \in Windows : pc[q] = "locked"
             \/ \A p \in Windows : ~Waiting(p)
             \/ Orphaned )

\* C25 witness: two windows were in the acquire loop together; one has left
\* it and holds the record while the other, which also wrote a record, is
\* still polling.
C25_Witness ==
    \E p, q \in Windows :
        /\ p # q
        /\ pc[p] = "locked"
        /\ Defined(globalState.lock)
        /\ Val(globalState.lock).value = value[p]
        /\ Waiting(q)
        /\ pc[q] = "acquire"
        /\ sweep.runs = 0
        /\ now = 0

=============================================================================
